---- MODULE Spec2Model ----
(***************************************************************************)
(* TristarTech (src/app.py): a Flask application that logs EVE Online      *)
(* characters in through OAuth2, polls their location from a background    *)
(* thread (background_location_update) and keeps an in-memory history      *)
(* (LOCATION_HISTORY) that the home page renders with a recency colour.    *)
(*                                                                         *)
(* Python values are represented as follows.  None and a missing text      *)
(* value are the string "None"; None for a numeric identifier is 0 (both   *)
(* are falsy in Python, like the values they stand for).  An optional      *)
(* dict (a location, or None) is a sequence of length 0 or 1.  A float     *)
(* security status is an integer number of tenths after round(x, 1) and of *)
(* hundredths before it.  The dict USERS is a sequence of records in       *)
(* insertion order, the order dict iteration follows.                      *)
(***************************************************************************)
EXTENDS Integers, Sequences, FiniteSets, TLC

\* ------------------------------------------------------------------ bounds

\* Character ids are 1..MaxId and solar systems 1..MaxSystem.  MaxLogins
\* /callback requests arrive with a code.  Where timestamps are inputs they
\* are drawn from 0..MaxTime, and a history given as an input holds at most
\* MaxLen entries.
MaxId == 2
MaxSystem == 2
MaxLogins == 2
MaxTime == 2
MaxLen == 2

Ids == 1..MaxId
Systems == 1..MaxSystem
Times == 0..MaxTime

\* ------------------------------------------------------- values and inputs

None == "None"
NoneId == 0
NoLocation == <<>>


Max(a, b) == IF a < b THEN b ELSE a
Last(s) == s[Len(s)]

\* A failed HTTP request: requests raises RequestException (a connection
\* error, or raise_for_status on a 4xx/5xx answer).
Fail == [ok |-> FALSE]

\* Answers of the token endpoint to an authorization code and to a refresh
\* token.  data.get(...) gives None for a key the JSON body does not hold.
CodeResponses ==
    {Fail,
     [ok |-> TRUE, access_token |-> "at1", refresh_token |-> "rt1"],
     [ok |-> TRUE, access_token |-> "at1", refresh_token |-> None],
     [ok |-> TRUE, access_token |-> None, refresh_token |-> None]}
RefreshResponses ==
    {Fail,
     [ok |-> TRUE, access_token |-> "at2", refresh_token |-> "rt2"],
     [ok |-> TRUE, access_token |-> "at2", refresh_token |-> None],
     [ok |-> TRUE, access_token |-> None, refresh_token |-> None]}

\* Answers of the location endpoint: data.get('station_id') and
\* data.get('structure_id') give None for a key the body does not hold.
StationIds == {NoneId, 60}
StructureIds == {NoneId, 70}

LocationResponses ==
    {Fail}
    \cup {[ok |-> TRUE, solar_system_id |-> s, station_id |-> st, structure_id |-> su] :
            s \in Systems, st \in StationIds, su \in StructureIds}


\* Answers of the universe/systems endpoint for system s: odd systems are
\* known space, even ones are wormhole systems (security_class "W").
SystemNames == <<"Jita", "J100820", "Amarr", "J164430">>
SystemData(s) ==
    [ok |-> TRUE,
     name |-> SystemNames[((s - 1) % Len(SystemNames)) + 1],
     security_status |-> IF s % 2 = 1 THEN 46 ELSE -99,
     security_class |-> IF s % 2 = 1 THEN "B" ELSE "W"]
SystemResponses(s) == {Fail, SystemData(s)}

\* ------------------------------------------------------------------ state

VARIABLES
    USERS,             \* app.py:33, in insertion order
    LOCATION_HISTORY,  \* app.py:34
    UPDATE_FREQUENCY,  \* app.py:35
    now,               \* the last value datetime.now(timezone.utc) gave, in hours
    logins,            \* history variable: /callback requests that carried a code
    session,           \* the browser's Flask session
    p_pc,              \* the poller thread: where it stands
    p_items,           \* its list(USERS.items()) of the sweep
    p_i,               \* index of the identity being processed
    p_location,        \* local location
    p_new_access,      \* local new_access_token
    p_new_refresh,     \* local new_refresh_token
    p_tmp,             \* the list built by log_location's comprehension
    p_sleep,           \* history variable: the arguments time.sleep was last called with
    p_trace,           \* history variable: the calls of the current tick
    p_hist0,           \* history variable: LOCATION_HISTORY when the tick began
    p_env,             \* history variable: the answers to the last get_location
    cb_pc,             \* the /callback request being served
    cb_access,         \* its local access_token
    cb_refresh,        \* its local refresh_token
    cb_info,           \* its locals character_id, character_name, portrait_url
    cb_location,       \* its local location
    cb_tmp,            \* the list built by log_location's comprehension
    cb_env,            \* history variable: the answers to its last lookups
    cb_status,         \* the HTTP status of the last /callback answer
    s_pc,              \* the /update_settings request being served
    s_form,            \* history variable: the submitted form
    s_before,          \* history variable: UPDATE_FREQUENCY when it arrived
    h_pc,              \* the home() request being served
    h_history,         \* the list get_location_history returned to home()
    h_reads,           \* history variable: that call's argument and clock
    r_calls            \* history variable: the observations passed to log_location

vars == <<USERS, LOCATION_HISTORY, UPDATE_FREQUENCY, now, logins, session,
          p_pc, p_items, p_i, p_location, p_new_access, p_new_refresh, p_tmp,
          p_sleep, p_trace, p_hist0, p_env,
          cb_pc, cb_access, cb_refresh, cb_info, cb_location, cb_tmp, cb_env,
          cb_status, s_pc, s_form, s_before, h_pc, h_history, h_reads, r_calls>>

pollerVars == <<p_pc, p_items, p_i, p_location, p_new_access, p_new_refresh,
                p_tmp, p_sleep, p_trace, p_hist0, p_env>>
callbackVars == <<cb_pc, cb_access, cb_refresh, cb_info, cb_location, cb_tmp,
                  cb_env, cb_status>>
settingsVars == <<s_pc, s_form, s_before>>
homeVars == <<h_pc, h_history, h_reads>>
storeVars == <<USERS, LOCATION_HISTORY>>

\* ----------------------------------------------------------- the gateway

\* An exchange that hands out a token whatever the endpoint answered.
GrantAlways(resp) == <<"at1", "rt1">>

\* refresh_access_token (and get_access_token, the same body): the pair
\* (access_token, refresh_token) of the answer, (None, None) on an exception.
RefreshAccessToken(resp) ==
    IF resp.ok THEN <<resp.access_token, resp.refresh_token>> ELSE <<None, None>>

GetAccessToken(resp) ==
    IF resp.ok THEN <<resp.access_token, resp.refresh_token>> ELSE <<None, None>>

\* round(x, 1) of a value given in hundredths, in tenths (nearest, ties to even).
Round1(h) ==
    LET q == h \div 10
        r == h % 10
    IN  IF r < 5 THEN q
        ELSE IF r > 5 THEN q + 1
        ELSE IF q % 2 = 0 THEN q ELSE q + 1

\* A lookup that takes every system it cannot read for a wormhole.
AssumeWormhole(resp) ==
    [system_name |-> "Unknown", security_status |-> 0, is_wormhole |-> TRUE]

\* get_system_info: (system_name, security_status, is_wormhole).
GetSystemInfo(resp) ==
    IF resp.ok
    THEN [system_name |-> resp.name,
          security_status |-> Round1(resp.security_status),
          is_wormhole |-> (resp.security_class = "W")]
    ELSE [system_name |-> "Unknown", security_status |-> 0, is_wormhole |-> FALSE]

\* get_location: the location dict, or None when the primary request fails.
\* get_location without raise_for_status: an observation is built from a
\* failed answer too.
GetLocationUnchecked(character_id, resp, sysresp, t) ==
    LET info == GetSystemInfo(sysresp)
    IN  <<[character_id |-> character_id,
           system_id |-> IF resp.ok THEN resp.solar_system_id ELSE 1,
           system_name |-> info.system_name,
           security_status |-> IF info.is_wormhole THEN -10 ELSE info.security_status,
           is_wormhole |-> info.is_wormhole,
           station_id |-> IF resp.ok THEN resp.station_id ELSE NoneId,
           structure_id |-> IF resp.ok THEN resp.structure_id ELSE NoneId,
           timestamp |-> t]>>

GetLocation(character_id, resp, sysresp, t) ==
    IF resp.ok
    THEN LET info == GetSystemInfo(sysresp)
         IN  <<[character_id |-> character_id,
                system_id |-> resp.solar_system_id,
                system_name |-> info.system_name,
                security_status |-> IF info.is_wormhole THEN -10 ELSE info.security_status,
                is_wormhole |-> info.is_wormhole,
                station_id |-> resp.station_id,
                structure_id |-> resp.structure_id,
                timestamp |-> t]>>
    ELSE NoLocation

\* ------------------------------------------------------ the history store

\* A comprehension that drops every entry of the character.
DropCharacter(hist, id, location) ==
    SelectSeq(hist, LAMBDA entry : entry.character_id # id)

\* A comprehension that drops nothing.
KeepAll(hist, id, location) == hist

\* The list comprehension of log_location.
FilterHistory(hist, character_id, location) ==
    SelectSeq(hist, LAMBDA entry :
        ~(entry.character_id = character_id /\ entry.system_id = location.system_id))

\* log_location run as a whole.
LogLocation(hist, character_id, loc) ==
    IF loc # NoLocation
    THEN Append(FilterHistory(hist, character_id, loc[1]), loc[1])
    ELSE hist

\* The text written to session['location'].
LocationSummary(location) ==
    [system_name |-> location.system_name,
     system_id |-> location.system_id,
     security_status |-> location.security_status,
     docked |-> IF location.station_id # NoneId THEN "Station ID"
                ELSE IF location.structure_id # NoneId THEN "Structure ID"
                ELSE "",
     docked_id |-> IF location.station_id # NoneId THEN location.station_id
                   ELSE location.structure_id]

\* ------------------------------------------------------- the token store

UserIndex(users, id) ==
    IF \E i \in 1..Len(users) : users[i].character_id = id
    THEN CHOOSE i \in 1..Len(users) : users[i].character_id = id
    ELSE 0

\* USERS[character_id] = record
UsersPut(users, record) ==
    LET i == UserIndex(users, record.character_id)
    IN  IF i = 0 THEN Append(users, record) ELSE [users EXCEPT ![i] = record]

\* A store that writes the token into every record.
SetEveryToken(users, id, token) ==
    [i \in 1..Len(users) |-> [users[i] EXCEPT !.access_token = token]]

\* USERS[character_id]['access_token'] = token
SetAccessToken(users, id, token) ==
    [users EXCEPT ![UserIndex(users, id)].access_token = token]

\* A store that ignores the write.
IgnoreToken(users, id, token) == users

\* USERS[character_id]['refresh_token'] = token
SetRefreshToken(users, id, token) ==
    [users EXCEPT ![UserIndex(users, id)].refresh_token = token]

\* ------------------------------------------------------------- the poller
\* background_location_update, one action per statement that reads or writes
\* shared state or calls the gateway.

character_id == p_items[p_i].character_id
access_token == p_items[p_i].access_token
refresh_token == p_items[p_i].refresh_token

\* A list of the first item only.
FirstItemOnly(users) == IF users = <<>> THEN <<>> ELSE <<Head(users)>>

\* list(USERS.items()): the keys and the dicts they map to.  A dict is
\* written in place only by the poller, during its key's own iteration, and
\* /callback binds a fresh dict, so what user_data.get reads later in the
\* sweep is what the dict held when the list was made.
ItemsSnapshot(users) == users

\* A branch that does not look at the refresh token.
RefreshRegardless(location, refresh) ==
    IF location = NoLocation THEN "refresh" ELSE "log_filter"

\* Line 161 and line 171 after the first get_location.
AfterFetch(location, refresh) ==
    IF location = NoLocation /\ refresh # None THEN "refresh"
    ELSE IF location # NoLocation THEN "log_filter"
    ELSE "next"

\* A branch that goes on with whatever the refresh returned.
AlwaysStore(new_access) == "store_access"

\* Line 164: the branch on new_access_token, and line 171 when it is None.
AfterRefresh(new_access) ==
    IF new_access # None THEN "store_access" ELSE "next"

\* Line 171 after the retried get_location.
AfterRetry(location) ==
    IF location # NoLocation THEN "log_filter" ELSE "next"

\* The for loop moves to the next item, or ends and line 178 follows.
Advance(pc) ==
    IF pc # "next" THEN
        /\ p_pc' = pc
        /\ UNCHANGED <<p_i, p_hist0>>
    ELSE IF p_i < Len(p_items) THEN
        /\ p_pc' = "fetch"
        /\ p_i' = p_i + 1
        /\ p_hist0' = LOCATION_HISTORY
    ELSE
        /\ p_pc' = "sleep"
        /\ p_i' = 0
        /\ p_hist0' = <<>>

\* The answers the ESI may give to one get_location call: the location
\* request fails (and no system is looked up), or it succeeds and the
\* lookup of that system fails or succeeds.
FetchAnswers ==
    {[loc |-> Fail, sys |-> Fail]}
    \cup {[loc |-> r, sys |-> q] :
            r \in LocationResponses \ {Fail},
            q \in {Fail} \cup {SystemData(s) : s \in Systems}}

FetchAnswerOk(e) ==
    e.loc.ok => e.sys \in SystemResponses(e.loc.solar_system_id)

\* The answers followed where handlers run one after the other: the
\* character is in space, the system lookup may fail.
SeqAnswers ==
    {e \in FetchAnswers :
        e.loc.ok => e.loc.station_id = NoneId /\ e.loc.structure_id = NoneId}

\* The answers followed where the two threads interleave: the character is
\* in space and the system is known.
ThreadAnswers ==
    {e \in FetchAnswers :
        e.loc.ok => e.loc.station_id = NoneId /\ e.loc.structure_id = NoneId /\ e.sys.ok}

\* The answers followed where docking matters: the character is in system
\* 1, in space, in a station, in a structure, or reported in both, and the
\* system is known.
DockedAnswers ==
    {e \in FetchAnswers : e.loc.ok => e.sys.ok /\ e.loc.solar_system_id = 1}

\* datetime.now(timezone.utc) at line 122: later than every earlier reading.
ClockAfter(e) == IF e.loc.ok THEN now + 1 ELSE now

NoFetch == [loc |-> Fail, sys |-> Fail]

\* Line 157: a sweep begins.
P_Sweep ==
    /\ p_pc = "sweep"
    /\ p_items' = ItemsSnapshot(USERS)
    /\ IF Len(USERS) = 0
       THEN p_pc' = "sleep" /\ p_i' = 0 /\ p_hist0' = <<>>
       ELSE p_pc' = "fetch" /\ p_i' = 1 /\ p_hist0' = LOCATION_HISTORY
    /\ p_trace' = <<>>
    /\ UNCHANGED <<p_location, p_new_access, p_new_refresh, p_tmp, p_sleep, p_env>>
    /\ UNCHANGED <<storeVars, UPDATE_FREQUENCY, now, logins, session, r_calls>>
    /\ UNCHANGED <<callbackVars, settingsVars, homeVars>>

\* Lines 158-161: the first get_location of the tick.
P_Fetch(answers) ==
    /\ p_pc = "fetch"
    /\ \E e \in answers :
        /\ FetchAnswerOk(e)
        /\ LET location == GetLocation(character_id, e.loc, e.sys, ClockAfter(e))
           IN  /\ p_location' = location
               /\ p_env' = e
               /\ now' = ClockAfter(e)
               /\ p_trace' = <<IF location # NoLocation THEN "fetch_ok" ELSE "fetch_fail">>
               /\ Advance(AfterFetch(location, refresh_token))
    /\ p_new_access' = None
    /\ p_new_refresh' = None
    /\ UNCHANGED <<p_items, p_tmp, p_sleep>>
    /\ UNCHANGED <<storeVars, UPDATE_FREQUENCY, logins, session, r_calls>>
    /\ UNCHANGED <<callbackVars, settingsVars, homeVars>>

\* Lines 163-164, 169-170: refresh_access_token.
P_Refresh ==
    /\ p_pc = "refresh"
    /\ \E resp \in RefreshResponses :
        LET tokens == RefreshAccessToken(resp)
        IN  /\ p_new_access' = tokens[1]
            /\ p_new_refresh' = tokens[2]
            /\ p_trace' = Append(p_trace, IF tokens[1] # None THEN "refresh_ok" ELSE "refresh_fail")
            /\ Advance(AfterRefresh(tokens[1]))
    /\ UNCHANGED <<p_items, p_location, p_tmp, p_sleep, p_env>>
    /\ UNCHANGED <<storeVars, UPDATE_FREQUENCY, now, logins, session, r_calls>>
    /\ UNCHANGED <<callbackVars, settingsVars, homeVars>>

\* Line 165.
P_StoreAccess ==
    /\ p_pc = "store_access"
    /\ USERS' = SetAccessToken(USERS, character_id, p_new_access)
    /\ p_pc' = "store_refresh"
    /\ UNCHANGED <<p_items, p_i, p_location, p_new_access, p_new_refresh, p_tmp,
                   p_sleep, p_trace, p_hist0, p_env>>
    /\ UNCHANGED <<LOCATION_HISTORY, UPDATE_FREQUENCY, now, logins, session, r_calls>>
    /\ UNCHANGED <<callbackVars, settingsVars, homeVars>>

\* Line 166.
P_StoreRefresh ==
    /\ p_pc = "store_refresh"
    /\ USERS' = SetRefreshToken(USERS, character_id, p_new_refresh)
    /\ p_pc' = "retry"
    /\ UNCHANGED <<p_items, p_i, p_location, p_new_access, p_new_refresh, p_tmp,
                   p_sleep, p_trace, p_hist0, p_env>>
    /\ UNCHANGED <<LOCATION_HISTORY, UPDATE_FREQUENCY, now, logins, session, r_calls>>
    /\ UNCHANGED <<callbackVars, settingsVars, homeVars>>

\* Lines 168, 171: the retried get_location.
P_Retry(answers) ==
    /\ p_pc = "retry"
    /\ \E e \in answers :
        /\ FetchAnswerOk(e)
        /\ LET location == GetLocation(character_id, e.loc, e.sys, ClockAfter(e))
           IN  /\ p_location' = location
               /\ p_env' = e
               /\ now' = ClockAfter(e)
               /\ p_trace' = Append(p_trace, IF location # NoLocation THEN "fetch_ok" ELSE "fetch_fail")
               /\ Advance(AfterRetry(location))
    /\ UNCHANGED <<p_items, p_new_access, p_new_refresh, p_tmp, p_sleep>>
    /\ UNCHANGED <<storeVars, UPDATE_FREQUENCY, logins, session, r_calls>>
    /\ UNCHANGED <<callbackVars, settingsVars, homeVars>>

\* Line 133, right-hand side: the comprehension reads LOCATION_HISTORY.
P_LogFilter ==
    /\ p_pc = "log_filter"
    /\ p_tmp' = FilterHistory(LOCATION_HISTORY, character_id, p_location[1])
    /\ r_calls' = Append(r_calls, p_location[1])
    /\ p_pc' = "log_assign"
    /\ UNCHANGED <<p_items, p_i, p_location, p_new_access, p_new_refresh,
                   p_sleep, p_trace, p_hist0, p_env>>
    /\ UNCHANGED <<storeVars, UPDATE_FREQUENCY, now, logins, session>>
    /\ UNCHANGED <<callbackVars, settingsVars, homeVars>>

\* Line 133: the global is bound to the new list.
P_LogAssign ==
    /\ p_pc = "log_assign"
    /\ LOCATION_HISTORY' = p_tmp
    /\ p_tmp' = <<>>
    /\ p_pc' = "log_append"
    /\ UNCHANGED <<p_items, p_i, p_location, p_new_access, p_new_refresh,
                   p_sleep, p_trace, p_hist0, p_env>>
    /\ UNCHANGED <<USERS, UPDATE_FREQUENCY, now, logins, session, r_calls>>
    /\ UNCHANGED <<callbackVars, settingsVars, homeVars>>

\* Line 134: append to the list the global names now.
P_LogAppend ==
    /\ p_pc = "log_append"
    /\ LOCATION_HISTORY' = Append(LOCATION_HISTORY, p_location[1])
    /\ p_trace' = Append(p_trace, "log")
    /\ p_pc' = "session"
    /\ UNCHANGED <<p_items, p_i, p_location, p_new_access, p_new_refresh, p_tmp,
                   p_sleep, p_hist0, p_env>>
    /\ UNCHANGED <<USERS, UPDATE_FREQUENCY, now, logins, session, r_calls>>
    /\ UNCHANGED <<callbackVars, settingsVars, homeVars>>

\* Lines 173-177.  flask.session is bound to a request context and
\* app.app_context() pushes none, so the subscript raises RuntimeError
\* ("Working outside of request context"); nothing in the loop catches it,
\* and the thread ends.  A thread that ended holds no locals.
P_Session ==
    /\ p_pc = "session"
    /\ p_pc' = "dead"
    /\ p_items' = <<>>
    /\ p_i' = 0
    /\ p_location' = NoLocation
    /\ p_new_access' = None
    /\ p_new_refresh' = None
    /\ p_trace' = <<>>
    /\ p_hist0' = <<>>
    /\ p_env' = NoFetch
    /\ UNCHANGED <<p_tmp, p_sleep>>
    /\ UNCHANGED <<storeVars, UPDATE_FREQUENCY, now, logins, session, r_calls>>
    /\ UNCHANGED <<callbackVars, settingsVars, homeVars>>

\* Line 178: time.sleep(UPDATE_FREQUENCY) reads the global; a negative
\* argument raises ValueError, which ends the thread as well.
P_Sleep ==
    /\ p_pc = "sleep"
    /\ p_sleep' = <<UPDATE_FREQUENCY>>
    /\ p_pc' = IF UPDATE_FREQUENCY < 0 THEN "dead" ELSE "sweep"
    /\ p_items' = <<>>
    /\ p_location' = NoLocation
    /\ p_new_access' = None
    /\ p_new_refresh' = None
    /\ p_trace' = <<>>
    /\ p_env' = NoFetch
    /\ UNCHANGED <<p_i, p_tmp, p_hist0>>
    /\ UNCHANGED <<storeVars, UPDATE_FREQUENCY, now, logins, session, r_calls>>
    /\ UNCHANGED <<callbackVars, settingsVars, homeVars>>

\* The thread, with the answers its get_location calls may get.
Poller(answers) ==
    \/ P_Sweep
    \/ P_Fetch(answers)
    \/ P_Refresh
    \/ P_StoreAccess
    \/ P_StoreRefresh
    \/ P_Retry(answers)
    \/ P_LogFilter
    \/ P_LogAssign
    \/ P_LogAppend
    \/ P_Session
    \/ P_Sleep

\* ------------------------------------------------------------ /callback
\* One request at a time is followed through the handler.

CharacterNames == <<"Alice", "Bob", "Carol", "Dave">>
CharacterName(id) == CharacterNames[((id - 1) % Len(CharacterNames)) + 1]

\* Answers of the verify endpoint and of the portrait endpoint.
VerifyResponses ==
    {Fail} \cup {[ok |-> TRUE, CharacterID |-> i, CharacterName |-> CharacterName(i)] : i \in Ids}
PortraitResponses ==
    {Fail, [ok |-> TRUE, px128x128 |-> "portrait.png"]}

\* get_character_info: (character_id, character_name, portrait_url).  Both
\* requests are made inside one try block.
GetCharacterInfo(verify, portrait) ==
    IF verify.ok /\ portrait.ok
    THEN <<verify.CharacterID, verify.CharacterName, portrait.px128x128>>
    ELSE <<NoneId, None, None>>

NoInfo == <<NoneId, None, None>>
NoAnswers == [request |-> "none", exchange |-> Fail, verify |-> Fail,
              portrait |-> Fail, loc |-> Fail, sys |-> Fail]

\* Lines 368-372: the request arrives, with or without a code.
C_Request ==
    /\ cb_pc = "idle"
    /\ \E code \in {None, "code"} :
        IF code = None
        THEN /\ cb_status' = 400
             /\ cb_pc' = "idle"
             /\ cb_env' = [NoAnswers EXCEPT !.request = "no_code"]
             /\ UNCHANGED logins
        ELSE /\ logins < MaxLogins
             /\ logins' = logins + 1
             /\ cb_status' = 0
             /\ cb_pc' = "exchange"
             /\ cb_env' = [NoAnswers EXCEPT !.request = "code"]
    /\ UNCHANGED <<cb_access, cb_refresh, cb_info, cb_location, cb_tmp>>
    /\ UNCHANGED <<storeVars, UPDATE_FREQUENCY, now, session, r_calls>>
    /\ UNCHANGED <<pollerVars, settingsVars, homeVars>>

\* Lines 374-377: get_access_token.
C_Exchange ==
    /\ cb_pc = "exchange"
    /\ \E resp \in CodeResponses :
        LET tokens == GetAccessToken(resp)
        IN  /\ cb_env' = [cb_env EXCEPT !.exchange = resp]
            /\ IF tokens[1] = None
               THEN /\ cb_status' = 400
                    /\ cb_pc' = "idle"
                    /\ UNCHANGED <<cb_access, cb_refresh>>
               ELSE /\ cb_access' = tokens[1]
                    /\ cb_refresh' = tokens[2]
                    /\ cb_pc' = "verify"
                    /\ UNCHANGED cb_status
    /\ UNCHANGED <<cb_info, cb_location, cb_tmp>>
    /\ UNCHANGED <<storeVars, UPDATE_FREQUENCY, now, logins, session, r_calls>>
    /\ UNCHANGED <<pollerVars, settingsVars, homeVars>>

\* Lines 379-382: get_character_info.  The portrait is asked for only after
\* the verify request succeeded.
C_Verify ==
    /\ cb_pc = "verify"
    /\ \E v \in VerifyResponses, q \in PortraitResponses :
        /\ ~v.ok => q = Fail
        /\ LET info == GetCharacterInfo(v, q)
           IN  /\ cb_env' = [cb_env EXCEPT !.verify = v, !.portrait = q]
               /\ IF info[1] = NoneId
                  THEN /\ cb_status' = 400
                       /\ cb_pc' = "idle"
                       /\ cb_access' = None
                       /\ cb_refresh' = None
                       /\ UNCHANGED cb_info
                  ELSE /\ cb_info' = info
                       /\ cb_pc' = "store"
                       /\ UNCHANGED <<cb_status, cb_access, cb_refresh>>
    /\ UNCHANGED <<cb_location, cb_tmp>>
    /\ UNCHANGED <<storeVars, UPDATE_FREQUENCY, now, logins, session, r_calls>>
    /\ UNCHANGED <<pollerVars, settingsVars, homeVars>>

\* Lines 384-394: the record is bound in USERS and the session to the identity.
C_Store ==
    /\ cb_pc = "store"
    /\ USERS' = UsersPut(USERS, [character_id |-> cb_info[1],
                                 character_name |-> cb_info[2],
                                 portrait_url |-> cb_info[3],
                                 access_token |-> cb_access,
                                 refresh_token |-> cb_refresh])
    /\ session' = [session EXCEPT !.character_id = cb_info[1],
                                  !.character_name = cb_info[2],
                                  !.portrait_url = cb_info[3]]
    /\ cb_pc' = "fetch"
    /\ UNCHANGED <<cb_access, cb_refresh, cb_info, cb_location, cb_tmp, cb_status, cb_env>>
    /\ UNCHANGED <<LOCATION_HISTORY, UPDATE_FREQUENCY, now, logins, r_calls>>
    /\ UNCHANGED <<pollerVars, settingsVars, homeVars>>

\* Lines 396-397, 403: the initial get_location; without a location the
\* handler answers the redirect.
C_Fetch(answers) ==
    /\ cb_pc = "fetch"
    /\ \E e \in answers :
        /\ FetchAnswerOk(e)
        /\ LET location == GetLocation(cb_info[1], e.loc, e.sys, ClockAfter(e))
           IN  /\ now' = ClockAfter(e)
               /\ cb_env' = [cb_env EXCEPT !.loc = e.loc, !.sys = e.sys]
               /\ IF location # NoLocation
                  THEN /\ cb_location' = location
                       /\ cb_pc' = "log_filter"
                       /\ UNCHANGED <<cb_status, cb_access, cb_refresh, cb_info>>
                  ELSE /\ cb_location' = NoLocation
                       /\ cb_status' = 302
                       /\ cb_pc' = "idle"
                       /\ cb_access' = None
                       /\ cb_refresh' = None
                       /\ cb_info' = NoInfo
    /\ UNCHANGED cb_tmp
    /\ UNCHANGED <<storeVars, UPDATE_FREQUENCY, logins, session, r_calls>>
    /\ UNCHANGED <<pollerVars, settingsVars, homeVars>>

\* Line 133, right-hand side, called from line 398.
C_LogFilter ==
    /\ cb_pc = "log_filter"
    /\ cb_tmp' = FilterHistory(LOCATION_HISTORY, cb_info[1], cb_location[1])
    /\ r_calls' = Append(r_calls, cb_location[1])
    /\ cb_pc' = "log_assign"
    /\ UNCHANGED <<cb_access, cb_refresh, cb_info, cb_location, cb_env, cb_status>>
    /\ UNCHANGED <<storeVars, UPDATE_FREQUENCY, now, logins, session>>
    /\ UNCHANGED <<pollerVars, settingsVars, homeVars>>

\* Line 133: the global is bound to the new list.
C_LogAssign ==
    /\ cb_pc = "log_assign"
    /\ LOCATION_HISTORY' = cb_tmp
    /\ cb_tmp' = <<>>
    /\ cb_pc' = "log_append"
    /\ UNCHANGED <<cb_access, cb_refresh, cb_info, cb_location, cb_env, cb_status>>
    /\ UNCHANGED <<USERS, UPDATE_FREQUENCY, now, logins, session, r_calls>>
    /\ UNCHANGED <<pollerVars, settingsVars, homeVars>>

\* Lines 134, 399-403: the append, the session summary and the redirect.
C_LogAppend ==
    /\ cb_pc = "log_append"
    /\ LOCATION_HISTORY' = Append(LOCATION_HISTORY, cb_location[1])
    /\ session' = [session EXCEPT !.location = <<LocationSummary(cb_location[1])>>]
    /\ cb_status' = 302
    /\ cb_pc' = "idle"
    /\ cb_access' = None
    /\ cb_refresh' = None
    /\ cb_info' = NoInfo
    /\ cb_location' = NoLocation
    /\ cb_env' = NoAnswers
    /\ UNCHANGED cb_tmp
    /\ UNCHANGED <<USERS, UPDATE_FREQUENCY, now, logins, r_calls>>
    /\ UNCHANGED <<pollerVars, settingsVars, homeVars>>

\* The handler, with the answers its get_location call may get.
Callback(answers) ==
    \/ C_Request
    \/ C_Exchange
    \/ C_Verify
    \/ C_Store
    \/ C_Fetch(answers)
    \/ C_LogFilter
    \/ C_LogAssign
    \/ C_LogAppend

\* ------------------------------------------------- get_location_history

\* 24*3600 and 48*3600 seconds, in hours.
Hours24 == 24
Hours48 == 48

\* A colouring whose first bound includes the 24th hour.
ColorInclusive(entry, r1, r2, r3) ==
    IF entry.is_wormhole /\ r1 - entry.timestamp <= Hours24 THEN "green"
    ELSE IF entry.is_wormhole /\ r2 - entry.timestamp < Hours48 THEN "yellow"
    ELSE IF entry.is_wormhole /\ r3 - entry.timestamp >= Hours48 THEN "red"
    ELSE "blue"

\* The conditional expression of lines 147-150, with the values the three
\* datetime.now calls give.  The and-chains stop at the first false operand,
\* so a reading is made only where the expression reaches it.
EntryColor(entry, r1, r2, r3) ==
    IF entry.is_wormhole /\ r1 - entry.timestamp < Hours24 THEN "green"
    ELSE IF entry.is_wormhole /\ r2 - entry.timestamp < Hours48 THEN "yellow"
    ELSE IF entry.is_wormhole /\ r3 - entry.timestamp >= Hours48 THEN "red"
    ELSE "blue"

\* How many datetime.now calls the expression makes for the entry.
ReadsMade(entry, r1, r2) ==
    IF ~entry.is_wormhole THEN 0
    ELSE IF r1 - entry.timestamp < Hours24 THEN 1
    ELSE IF r2 - entry.timestamp < Hours48 THEN 2
    ELSE 3

\* The clock during one call: it shows start, and one hour more from the
\* reading after the tick-th on.  j is the number of the reading.
ClockRead(start, tick, j) == IF j > tick THEN start + 1 ELSE start

\* The dict built for one entry.  The field clock is a history field: the
\* clock values read for this entry.
HistoryItem(entry, start, tick, j) ==
    LET r1 == ClockRead(start, tick, j + 1)
        r2 == ClockRead(start, tick, j + 2)
        r3 == ClockRead(start, tick, j + 3)
    IN  [system_id |-> entry.system_id,
         system_name |-> entry.system_name,
         security_status |-> entry.security_status,
         is_wormhole |-> entry.is_wormhole,
         station_id |-> entry.station_id,
         structure_id |-> entry.structure_id,
         timestamp |-> entry.timestamp,
         color |-> EntryColor(entry, r1, r2, r3),
         clock |-> SubSeq(<<r1, r2, r3>>, 1, ReadsMade(entry, r1, r2))]

\* The list comprehension of lines 138-152; j readings were made so far.
RECURSIVE HistoryItems(_, _, _, _, _)
HistoryItems(hist, id, start, tick, j) ==
    IF hist = <<>> THEN <<>>
    ELSE IF Head(hist).character_id # id
         THEN HistoryItems(Tail(hist), id, start, tick, j)
         ELSE LET item == HistoryItem(Head(hist), start, tick, j)
              IN  <<item>> \o HistoryItems(Tail(hist), id, start, tick, j + Len(item.clock))

\* A sort that leaves the list as it is.
InsertLast(sorted, item) == Append(sorted, item)

\* sorted(..., key=timestamp, reverse=True) is stable: an item goes behind
\* every item whose timestamp is not smaller than its own.
InsertNewestFirst(sorted, item) ==
    LET ahead == {i \in 1..Len(sorted) : sorted[i].timestamp >= item.timestamp}
        k == IF ahead = {} THEN 0 ELSE CHOOSE i \in ahead : \A m \in ahead : m <= i
    IN  SubSeq(sorted, 1, k) \o <<item>> \o SubSeq(sorted, k + 1, Len(sorted))

RECURSIVE SortNewestFirst(_, _)
SortNewestFirst(sorted, rest) ==
    IF rest = <<>> THEN sorted
    ELSE SortNewestFirst(InsertNewestFirst(sorted, Head(rest)), Tail(rest))

GetLocationHistory(hist, id, start, tick) ==
    SortNewestFirst(<<>>, HistoryItems(hist, id, start, tick, 0))

\* When home() is called: any hour from the last timestamp on; the ones
\* followed put the entries' ages on both sides of the two bounds.
CallTimes == {MaxTime, Hours24 + 1, Hours48 + 1}

NoCall == [character_id |-> NoneId, start |-> 0, tick |-> 0]

\* Line 189, for a session that holds a character_id.
H_Request ==
    /\ h_pc = "idle"
    /\ \E id \in Ids, start \in CallTimes, tick \in 0..(3 * MaxLen) :
        /\ h_history' = GetLocationHistory(LOCATION_HISTORY, id, start, tick)
        /\ h_reads' = [character_id |-> id, start |-> start, tick |-> tick]
    /\ h_pc' = "done"
    /\ UNCHANGED <<storeVars, UPDATE_FREQUENCY, now, logins, session, r_calls>>
    /\ UNCHANGED <<pollerVars, callbackVars, settingsVars>>

\* ------------------------------------------------------- /update_settings

\* Form values are sequences of characters.
DigitChars == <<"0", "1", "2", "3", "4", "5", "6", "7", "8", "9">>
IsDigit(c) == \E i \in 1..Len(DigitChars) : DigitChars[i] = c
DigitValue(c) == (CHOOSE i \in 1..Len(DigitChars) : DigitChars[i] = c) - 1

RECURSIVE StripLeft(_)
StripLeft(text) ==
    IF text # <<>> /\ Head(text) = " " THEN StripLeft(Tail(text)) ELSE text

RECURSIVE StripRight(_)
StripRight(text) ==
    IF text # <<>> /\ Last(text) = " "
    THEN StripRight(SubSeq(text, 1, Len(text) - 1))
    ELSE text

RECURSIVE DigitsValue(_, _)
DigitsValue(digits, acc) ==
    IF digits = <<>> THEN acc
    ELSE DigitsValue(Tail(digits), 10 * acc + DigitValue(Head(digits)))

\* int(text): surrounding whitespace is dropped, a sign may lead, decimal
\* digits follow; anything else raises ValueError.
ParseInt(text) ==
    LET body == StripRight(StripLeft(text))
        signed == body # <<>> /\ Head(body) \in {"+", "-"}
        digits == IF signed THEN Tail(body) ELSE body
    IN  IF digits # <<>> /\ \A i \in 1..Len(digits) : IsDigit(digits[i])
        THEN [ok |-> TRUE,
              value |-> IF signed /\ Head(body) = "-"
                        THEN 0 - DigitsValue(digits, 0)
                        ELSE DigitsValue(digits, 0)]
        ELSE [ok |-> FALSE, value |-> 0]

\* request.form.get('update_frequency', 60)
DefaultFrequencyText == <<"6", "0">>
FormGet(form) == IF form.present THEN form.text ELSE DefaultFrequencyText

\* No lower bound.
KeepFrequency(n) == n

\* Lines 410-411.
ClampFrequency(n) == IF n < 10 THEN 10 ELSE n

\* The forms a browser may post, each with what it says: an integer (and
\* which), or something else.  The last one has no update_frequency field.
Forms ==
    {[present |-> TRUE, text |-> <<"5">>, integer |-> TRUE, n |-> 5],
     [present |-> TRUE, text |-> <<"2", "5">>, integer |-> TRUE, n |-> 25],
     [present |-> TRUE, text |-> <<"-", "3">>, integer |-> TRUE, n |-> -3],
     [present |-> TRUE, text |-> <<" ", "1", "0">>, integer |-> TRUE, n |-> 10],
     [present |-> TRUE, text |-> <<"a", "b", "c">>, integer |-> FALSE, n |-> 0],
     [present |-> TRUE, text |-> <<"5", ".", "5">>, integer |-> FALSE, n |-> 0],
     [present |-> TRUE, text |-> <<>>, integer |-> FALSE, n |-> 0],
     [present |-> FALSE, text |-> <<>>, integer |-> FALSE, n |-> 0]}

NoForm == [present |-> FALSE, text |-> <<>>, integer |-> FALSE, n |-> 0]

\* Lines 408-409, 413-415: int() of the form value; the global is bound to
\* the result before it is compared with 10.  A ValueError leaves it alone
\* and the handler answers the redirect.
S_Request ==
    /\ s_pc \in {"idle", "done"}
    /\ \E form \in Forms :
        LET parsed == ParseInt(FormGet(form))
        IN  /\ s_form' = form
            /\ s_before' = UPDATE_FREQUENCY
            /\ IF parsed.ok
               THEN UPDATE_FREQUENCY' = parsed.value /\ s_pc' = "clamp"
               ELSE UPDATE_FREQUENCY' = UPDATE_FREQUENCY /\ s_pc' = "done"
    /\ UNCHANGED <<storeVars, now, logins, session, r_calls>>
    /\ UNCHANGED <<pollerVars, callbackVars, homeVars>>

\* Lines 410-412, 415.
S_Clamp ==
    /\ s_pc = "clamp"
    /\ UPDATE_FREQUENCY' = ClampFrequency(UPDATE_FREQUENCY)
    /\ s_pc' = "done"
    /\ UNCHANGED <<s_form, s_before>>
    /\ UNCHANGED <<storeVars, now, logins, session, r_calls>>
    /\ UNCHANGED <<pollerVars, callbackVars, homeVars>>

Settings ==
    \/ S_Request
    \/ S_Clamp

\* ---------------------------------------------------------- the program

\* int(os.environ.get('UPDATE_FREQUENCY', 10)): the default, or what the
\* environment sets.
DefaultFrequency == 10
InitialFrequencies == {5, DefaultFrequency}

NoSession == [character_id |-> NoneId, character_name |-> None,
              portrait_url |-> None, location |-> <<>>]
InitPoller ==
    /\ p_pc = "sweep"
    /\ p_items = <<>>
    /\ p_i = 0
    /\ p_location = NoLocation
    /\ p_new_access = None
    /\ p_new_refresh = None
    /\ p_tmp = <<>>
    /\ p_sleep = <<>>
    /\ p_trace = <<>>
    /\ p_hist0 = <<>>
    /\ p_env = NoFetch

InitCallback ==
    /\ cb_pc = "idle"
    /\ cb_access = None
    /\ cb_refresh = None
    /\ cb_info = NoInfo
    /\ cb_location = NoLocation
    /\ cb_tmp = <<>>
    /\ cb_env = NoAnswers
    /\ cb_status = 0
    /\ logins = 0
    /\ session = NoSession

InitSettings ==
    /\ s_pc = "idle"
    /\ s_form = NoForm
    /\ s_before = 0

InitHome ==
    /\ h_pc = "idle"
    /\ h_history = <<>>
    /\ h_reads = NoCall
    /\ r_calls = <<>>

\* The state when the module has been imported and the thread started.
Init ==
    /\ USERS = <<>>
    /\ LOCATION_HISTORY = <<>>
    /\ UPDATE_FREQUENCY \in InitialFrequencies
    /\ now = 0
    /\ InitPoller
    /\ InitCallback
    /\ InitSettings
    /\ InitHome

\* The poller thread and the /callback handler, which share USERS and
\* LOCATION_HISTORY.
Next ==
    \/ Poller(ThreadAnswers)
    \/ Callback(ThreadAnswers)

Spec == Init /\ [][Next]_vars

\* The same two, one at a time: /callback is served while the thread is
\* between two sweeps (or has ended) and the thread runs while no request is
\* being served.
NextSeq ==
    \/ cb_pc = "idle" /\ P_Sweep
    \/ cb_pc = "idle" /\ P_Fetch(SeqAnswers)
    \/ cb_pc = "idle" /\ P_Refresh
    \/ cb_pc = "idle" /\ P_StoreAccess
    \/ cb_pc = "idle" /\ P_StoreRefresh
    \/ cb_pc = "idle" /\ P_Retry(SeqAnswers)
    \/ cb_pc = "idle" /\ P_LogFilter
    \/ cb_pc = "idle" /\ P_LogAssign
    \/ cb_pc = "idle" /\ P_LogAppend
    \/ cb_pc = "idle" /\ P_Session
    \/ cb_pc = "idle" /\ P_Sleep
    \/ p_pc \in {"sweep", "dead"} /\ C_Request
    \/ p_pc \in {"sweep", "dead"} /\ C_Exchange
    \/ p_pc \in {"sweep", "dead"} /\ C_Verify
    \/ p_pc \in {"sweep", "dead"} /\ C_Store
    \/ p_pc \in {"sweep", "dead"} /\ C_Fetch(SeqAnswers)
    \/ p_pc \in {"sweep", "dead"} /\ C_LogFilter
    \/ p_pc \in {"sweep", "dead"} /\ C_LogAssign
    \/ p_pc \in {"sweep", "dead"} /\ C_LogAppend

SpecSeq == Init /\ [][NextSeq]_vars

\* The poller and /update_settings, which share UPDATE_FREQUENCY, while
\* nobody has logged in: a sweep finds no identity and the thread sleeps.
NextSettings ==
    \/ P_Sweep
    \/ P_Sleep
    \/ Settings

SpecSettings == Init /\ [][NextSettings]_vars

\* get_location_history as a function of the list it reads: every list of
\* at most MaxLen observations of a character in space, with timestamps in
\* Times, and one call of home().
HistoryEntries ==
    {GetLocation(id, [ok |-> TRUE, solar_system_id |-> y, station_id |-> NoneId,
                      structure_id |-> NoneId], SystemData(y), t)[1] :
        id \in Ids, y \in Systems, t \in Times}

Histories == UNION {[1..n -> HistoryEntries] : n \in 0..MaxLen}

InitHist ==
    /\ USERS = <<>>
    /\ LOCATION_HISTORY \in Histories
    /\ UPDATE_FREQUENCY = DefaultFrequency
    /\ now = MaxTime
    /\ InitPoller
    /\ InitCallback
    /\ InitSettings
    /\ InitHome

NextHist == H_Request

SpecHist == InitHist /\ [][NextHist]_vars

\* The thread and the handlers that touch the globals, served one at a time:
\* /callback, one home() request (clock at MaxTime, not advancing during the
\* call) and one /update_settings request (a form with "5" or with "abc").
\* /login (lines 351-365) reads the OAuth configuration only and binds no
\* global: it is a step that leaves every variable as it is.
NextHandlers ==
    \/ cb_pc = "idle" /\ s_pc # "clamp" /\ P_Sweep
    \/ cb_pc = "idle" /\ s_pc # "clamp" /\ P_Fetch(ThreadAnswers)
    \/ cb_pc = "idle" /\ s_pc # "clamp" /\ P_Refresh
    \/ cb_pc = "idle" /\ s_pc # "clamp" /\ P_StoreAccess
    \/ cb_pc = "idle" /\ s_pc # "clamp" /\ P_StoreRefresh
    \/ cb_pc = "idle" /\ s_pc # "clamp" /\ P_Retry(ThreadAnswers)
    \/ cb_pc = "idle" /\ s_pc # "clamp" /\ P_LogFilter
    \/ cb_pc = "idle" /\ s_pc # "clamp" /\ P_LogAssign
    \/ cb_pc = "idle" /\ s_pc # "clamp" /\ P_LogAppend
    \/ cb_pc = "idle" /\ s_pc # "clamp" /\ P_Session
    \/ cb_pc = "idle" /\ s_pc # "clamp" /\ P_Sleep
    \/ p_pc \in {"sweep", "dead"} /\ s_pc # "clamp" /\ C_Request
    \/ p_pc \in {"sweep", "dead"} /\ s_pc # "clamp" /\ C_Exchange
    \/ p_pc \in {"sweep", "dead"} /\ s_pc # "clamp" /\ C_Verify
    \/ p_pc \in {"sweep", "dead"} /\ s_pc # "clamp" /\ C_Store
    \/ p_pc \in {"sweep", "dead"} /\ s_pc # "clamp" /\ C_Fetch(ThreadAnswers)
    \/ p_pc \in {"sweep", "dead"} /\ s_pc # "clamp" /\ C_LogFilter
    \/ p_pc \in {"sweep", "dead"} /\ s_pc # "clamp" /\ C_LogAssign
    \/ p_pc \in {"sweep", "dead"} /\ s_pc # "clamp" /\ C_LogAppend
    \/ /\ cb_pc = "idle" /\ p_pc \in {"sweep", "dead"} /\ s_pc # "clamp"
       /\ H_Request
       /\ h_reads'.start = MaxTime /\ h_reads'.tick = 0
    \/ /\ cb_pc = "idle" /\ p_pc \in {"sweep", "dead"} /\ s_pc = "idle"
       /\ S_Request
       /\ s_form'.text \in {<<"5">>, <<"a", "b", "c">>}
    \/ S_Clamp

SpecHandlers == Init /\ [][NextHandlers]_vars

\* The thread and /callback, one at a time, with the answers of a character
\* that docks and undocks in one system.
NextDocked ==
    \/ cb_pc = "idle" /\ P_Sweep
    \/ cb_pc = "idle" /\ P_Fetch(DockedAnswers)
    \/ cb_pc = "idle" /\ P_Refresh
    \/ cb_pc = "idle" /\ P_StoreAccess
    \/ cb_pc = "idle" /\ P_StoreRefresh
    \/ cb_pc = "idle" /\ P_Retry(DockedAnswers)
    \/ cb_pc = "idle" /\ P_LogFilter
    \/ cb_pc = "idle" /\ P_LogAssign
    \/ cb_pc = "idle" /\ P_LogAppend
    \/ cb_pc = "idle" /\ P_Session
    \/ cb_pc = "idle" /\ P_Sleep
    \/ p_pc \in {"sweep", "dead"} /\ C_Request
    \/ p_pc \in {"sweep", "dead"} /\ C_Exchange
    \/ p_pc \in {"sweep", "dead"} /\ C_Verify
    \/ p_pc \in {"sweep", "dead"} /\ C_Store
    \/ p_pc \in {"sweep", "dead"} /\ C_Fetch(DockedAnswers)
    \/ p_pc \in {"sweep", "dead"} /\ C_LogFilter
    \/ p_pc \in {"sweep", "dead"} /\ C_LogAssign
    \/ p_pc \in {"sweep", "dead"} /\ C_LogAppend

SpecDocked == Init /\ [][NextDocked]_vars

\* ------------------------------------------------------------ properties

PairOf(entry) == <<entry.character_id, entry.system_id>>

PollerLogging == p_pc \in {"log_assign", "log_append"}
CallbackLogging == cb_pc \in {"log_assign", "log_append"}

RefreshTick == <<"fetch_fail", "refresh_ok", "fetch_ok", "log">>

\* C1: when a tick's first get_location fails, the refresh succeeds and the
\* retried get_location succeeds, then once the observation is logged
\* USERS[id] holds the two tokens the refresh returned, and LOCATION_HISTORY
\* is what it was when the tick began with the entry of the observation's
\* (character, system) pair, at most one, taken out and the retried
\* observation put at the end.
C1_RefreshStoresAndLogsOnce ==
    (p_pc = "session" /\ p_trace = RefreshTick) =>
        LET user == USERS[UserIndex(USERS, character_id)]
            observation == p_location[1]
            same == {i \in 1..Len(p_hist0) : PairOf(p_hist0[i]) = PairOf(observation)}
            others == SelectSeq(p_hist0, LAMBDA entry : PairOf(entry) # PairOf(observation))
        IN  /\ p_new_access \in {r.access_token : r \in RefreshResponses \ {Fail}}
            /\ user.access_token = p_new_access
            /\ user.refresh_token = p_new_refresh
            /\ observation.character_id = character_id
            /\ Cardinality(same) <= 1
            /\ LOCATION_HISTORY = Append(others, observation)

\* A tick of that kind has replaced the entry logged at login, and the
\* refresh returned a new refresh token.
C1_Witness ==
    /\ p_pc = "session"
    /\ p_trace = RefreshTick
    /\ p_new_refresh = "rt2"
    /\ p_hist0 # <<>>
    /\ Len(LOCATION_HISTORY) = Len(p_hist0)
    /\ LOCATION_HISTORY # p_hist0

\* C2: the step in which refresh_access_token fails after a failed
\* get_location leaves LOCATION_HISTORY as it was when the tick began, does
\* not end the thread, and moves the loop to the next identity of the sweep
\* (to the sleep after the last one).
C2_RefreshFailureSkipsIdentity ==
    [][(p_pc = "refresh" /\ p_trace' = Append(p_trace, "refresh_fail")) =>
          /\ LOCATION_HISTORY' = LOCATION_HISTORY
          /\ LOCATION_HISTORY' = p_hist0
          /\ USERS' = USERS
          /\ p_pc' # "dead"
          /\ IF p_i < Len(p_items)
             THEN p_pc' = "fetch" /\ p_i' = p_i + 1
             ELSE p_pc' = "sleep"]_vars

\* The refresh failed for the first identity and the second one is about to
\* be fetched.
C2_Witness ==
    /\ p_pc = "fetch"
    /\ p_i = 2
    /\ p_trace = <<"fetch_fail", "refresh_fail">>
    /\ LOCATION_HISTORY = p_hist0

\* C3: the poller runs forever, whatever its calls return: the thread
\* never ends.
C3_PollerNeverEnds == p_pc # "dead"

\* C4: between two log_location calls, LOCATION_HISTORY holds at most one
\* entry per (character_id, system_id) pair, none for a pair no call was
\* made for, and for every other pair the observation passed to the last
\* call made for it.
C4_OneEntryPerPair ==
    (~PollerLogging /\ ~CallbackLogging) =>
        \A c \in Ids, y \in Systems :
            LET held == {i \in 1..Len(LOCATION_HISTORY) : PairOf(LOCATION_HISTORY[i]) = <<c, y>>}
                calls == {j \in 1..Len(r_calls) : PairOf(r_calls[j]) = <<c, y>>}
            IN  /\ Cardinality(held) <= 1
                /\ calls = {} => held = {}
                /\ calls # {} =>
                     \E i \in held :
                        LOCATION_HISTORY[i] = r_calls[CHOOSE j \in calls : \A k \in calls : k <= j]

\* Three calls were made for one pair and one entry, the last call's, is held.
C4_Witness ==
    /\ ~PollerLogging /\ ~CallbackLogging
    /\ Len(r_calls) = 3
    /\ \A j \in 1..Len(r_calls) : PairOf(r_calls[j]) = PairOf(r_calls[1])
    /\ LOCATION_HISTORY = <<r_calls[3]>>
    /\ r_calls[3] # r_calls[1]

\* C5: the list get_location_history returns is in non-increasing order of
\* timestamp, whatever LOCATION_HISTORY holds and whichever character is
\* asked for.
C5_NewestFirst ==
    h_pc = "done" =>
        \A i \in 1..Len(h_history), j \in 1..Len(h_history) :
            i < j => h_history[i].timestamp >= h_history[j].timestamp

\* Two entries of the character were returned in the order opposite to the
\* one LOCATION_HISTORY holds them in.
C5_Witness ==
    /\ h_pc = "done"
    /\ Len(LOCATION_HISTORY) = 2
    /\ LOCATION_HISTORY[1].timestamp < LOCATION_HISTORY[2].timestamp
    /\ Len(h_history) = 2
    /\ h_history[1].timestamp = LOCATION_HISTORY[2].timestamp
    /\ h_history[2].timestamp = LOCATION_HISTORY[1].timestamp

ColorForAge(age) ==
    IF age < 24 THEN "green"
    ELSE IF age < 48 THEN "yellow"
    ELSE "red"

\* C6: every returned entry of a wormhole system is green when its age is
\* below 24 hours, yellow from 24 hours on and below 48, red from 48 hours
\* on, the age being taken at the last clock reading made for the entry;
\* every other entry is blue and no clock is read for it.
C6_ColorByAge ==
    h_pc = "done" =>
        \A i \in 1..Len(h_history) :
            LET item == h_history[i]
            IN  IF item.is_wormhole
                THEN /\ item.clock # <<>>
                     /\ item.color = ColorForAge(Last(item.clock) - item.timestamp)
                ELSE item.color = "blue" /\ item.clock = <<>>

\* A wormhole entry aged exactly 24 hours came back yellow, next to an entry
\* of known space.
C6_Witness ==
    /\ h_pc = "done"
    /\ \E i \in 1..Len(h_history) :
        /\ h_history[i].is_wormhole
        /\ h_history[i].color = "yellow"
        /\ Last(h_history[i].clock) - h_history[i].timestamp = 24
    /\ \E i \in 1..Len(h_history) :
        ~h_history[i].is_wormhole /\ h_history[i].color = "blue"

\* C7: when /update_settings has answered, UPDATE_FREQUENCY is the greater
\* of n and 10 where the form's update_frequency is the integer n, and is
\* what it was when the request arrived where that field is not an integer.
C7_SettingsClampOrKeep ==
    (s_pc = "done" /\ s_form.present) =>
        IF s_form.integer
        THEN UPDATE_FREQUENCY = Max(s_form.n, 10)
        ELSE UPDATE_FREQUENCY = s_before

\* A request for 5 seconds has been answered and the interval is 10, where
\* it was 25 before.
C7_Witness ==
    /\ s_pc = "done"
    /\ s_form.present /\ s_form.integer /\ s_form.n = 5
    /\ s_before = 25
    /\ UPDATE_FREQUENCY = 10

\* C8: the poll interval is at least 10 in every reachable state, and so is
\* every value the poller passes to time.sleep.
C8_IntervalAtLeastTen ==
    /\ UPDATE_FREQUENCY >= 10
    /\ \A i \in 1..Len(p_sleep) : p_sleep[i] >= 10

Degraded(location) ==
    /\ location.system_name = "Unknown"
    /\ location.is_wormhole = FALSE
    /\ location.security_status = 0

\* C9: when the location request succeeds and the system lookup fails,
\* get_location returns an observation with system_name 'Unknown',
\* is_wormhole False and security_status 0.0, and its caller, the poller or
\* /callback, goes on to log it: after the append it is the last entry of
\* LOCATION_HISTORY.
C9_LookupFailureStillLogged ==
    /\ [](/\ (p_env.loc.ok /\ ~p_env.sys.ok) =>
              /\ p_pc \in {"log_filter", "log_assign", "log_append", "session"}
              /\ p_location # NoLocation
              /\ Degraded(p_location[1])
              /\ p_location[1].system_id = p_env.loc.solar_system_id
              /\ p_pc = "session" => Last(LOCATION_HISTORY) = p_location[1]
          /\ (cb_env.loc.ok /\ ~cb_env.sys.ok) =>
              /\ cb_pc \in {"log_filter", "log_assign", "log_append"}
              /\ cb_location # NoLocation
              /\ Degraded(cb_location[1]))
    /\ [][(cb_pc = "log_append" /\ cb_pc' = "idle") =>
              Last(LOCATION_HISTORY') = cb_location[1]]_vars

\* The poller has logged an observation whose system lookup had failed.
C9_Witness ==
    /\ p_pc = "session"
    /\ p_env.loc.ok /\ ~p_env.sys.ok
    /\ Last(LOCATION_HISTORY).system_name = "Unknown"
    /\ Last(r_calls) = Last(LOCATION_HISTORY)

\* C10: when the verify request succeeds and the portrait request fails,
\* get_character_info returns the character's id and name with an empty
\* portrait, and /callback goes on instead of answering 400.
C10_PortraitFailureTolerated ==
    (cb_env.verify.ok /\ ~cb_env.portrait.ok) =>
        /\ cb_status # 400
        /\ cb_info = <<cb_env.verify.CharacterID, cb_env.verify.CharacterName, "">>

\* What /callback was asked and how its lookups went, for a request that has
\* been answered.
CodeMissing == cb_env.request = "no_code"
ExchangeFailed ==
    /\ cb_env.request = "code"
    /\ ~cb_env.exchange.ok \/ cb_env.exchange.access_token = None
VerifyFailed ==
    /\ cb_env.request = "code"
    /\ cb_env.exchange.ok
    /\ ~cb_env.verify.ok

\* A step of /callback before line 384.
CallbackStepBeforeStore ==
    /\ cb_pc \in {"idle", "exchange", "verify"}
    /\ callbackVars' # callbackVars \/ logins' # logins

\* C11: /callback answers 400 when the code is missing, when the token
\* exchange fails and when the verify request fails, and no step it takes up
\* to that answer changes USERS, LOCATION_HISTORY or the session.
C11_FailedCallbackAnswers400 ==
    /\ []((cb_pc = "idle" /\ (CodeMissing \/ ExchangeFailed \/ VerifyFailed)) =>
              cb_status = 400)
    /\ []((cb_pc # "idle" /\ (CodeMissing \/ ExchangeFailed \/ VerifyFailed)) =>
              cb_pc \in {"exchange", "verify"})
    /\ [][CallbackStepBeforeStore =>
              /\ USERS' = USERS
              /\ LOCATION_HISTORY' = LOCATION_HISTORY
              /\ session' = session]_vars

\* A second login failed at the verify request: the answer is 400 and the
\* record, the history and the session of the first login are as they were.
C11_Witness ==
    /\ cb_pc = "idle"
    /\ VerifyFailed
    /\ cb_status = 400
    /\ Len(USERS) = 1
    /\ Len(LOCATION_HISTORY) = 1
    /\ session.character_id = USERS[1].character_id

\* The request got its tokens and its character, and the location request
\* that followed failed.
InitialFetchFailed ==
    /\ cb_pc = "idle"
    /\ cb_env.request = "code"
    /\ cb_env.exchange.ok
    /\ cb_env.verify.ok
    /\ cb_env.portrait.ok
    /\ ~cb_env.loc.ok

\* C12: when the location request of /callback fails after the exchange
\* and the verification succeeded, the answer is an HTTP error, not the
\* redirect.
C12_FetchFailureAnswersError ==
    InitialFetchFailed => cb_status >= 400 /\ cb_status # 302

PairsOf(list) == {PairOf(list[i]) : i \in 1..Len(list)}
EntriesOf(list, pair) == SelectSeq(list, LAMBDA entry : PairOf(entry) = pair)

\* The pair of the log_location call in progress, if there is one.
NoPair == <<NoneId, NoneId>>
LoggingPair ==
    IF p_pc \in {"log_filter", "log_assign", "log_append"} THEN PairOf(p_location[1])
    ELSE IF cb_pc \in {"log_filter", "log_assign", "log_append"} THEN PairOf(cb_location[1])
    ELSE NoPair

\* C13: between two log_location calls the (character_id, system_id) pairs
\* in LOCATION_HISTORY are the pairs of all the calls made so far, and no
\* step changes the entries of a pair other than the one being logged.
C13_NoEviction ==
    /\ []((~PollerLogging /\ ~CallbackLogging) =>
              PairsOf(LOCATION_HISTORY) = PairsOf(r_calls))
    /\ [][\A c \in Ids, y \in Systems :
              <<c, y>> # LoggingPair =>
                  EntriesOf(LOCATION_HISTORY', <<c, y>>) = EntriesOf(LOCATION_HISTORY, <<c, y>>)]_vars

\* Three calls, the first and the third for one pair: the entry of the
\* second call, for another system of the same character, is still there.
C13_Witness ==
    /\ ~PollerLogging /\ ~CallbackLogging
    /\ Len(r_calls) = 3
    /\ PairOf(r_calls[1]) = PairOf(r_calls[3])
    /\ r_calls[2].character_id = r_calls[1].character_id
    /\ r_calls[2].system_id # r_calls[1].system_id
    /\ LOCATION_HISTORY = <<r_calls[2], r_calls[3]>>

\* The gateway calls of a tick, in order.
CallsOf(trace) == SelectSeq(trace, LAMBDA event : event # "log")

TickCalls ==
    {<<>>,
     <<"fetch_ok">>,
     <<"fetch_fail">>,
     <<"fetch_fail", "refresh_fail">>,
     <<"fetch_fail", "refresh_ok">>,
     <<"fetch_fail", "refresh_ok", "fetch_ok">>,
     <<"fetch_fail", "refresh_ok", "fetch_fail">>}

\* C14: the calls of a tick are one get_location, then at most one
\* refresh_access_token, then at most one more get_location.  The refresh
\* is called only right after a failed first get_location and with a refresh
\* token present; the second get_location is called only right after a
\* successful refresh, and after a successful refresh it is always called.
C14_CallOrder ==
    /\ CallsOf(p_trace) \in TickCalls
    /\ p_pc = "refresh" => p_trace = <<"fetch_fail">> /\ refresh_token # None
    /\ p_pc = "retry" => p_trace = <<"fetch_fail", "refresh_ok">>
    /\ p_trace = <<"fetch_fail", "refresh_ok">> =>
          p_pc \in {"store_access", "store_refresh", "retry"}
    /\ (p_trace = <<"fetch_fail">> /\ p_pc # "refresh") =>
          p_pc \in {"fetch", "sleep"}

\* The retried get_location failed too and the loop went on without a
\* further call.
C14_Witness ==
    /\ p_trace = <<"fetch_fail", "refresh_ok", "fetch_fail">>
    /\ p_pc = "fetch"
    /\ p_i = 2

\* A step of the poller thread that changes USERS.
PollerWritesUsers == pollerVars' # pollerVars /\ USERS' # USERS

\* C15: the poller writes to USERS only in a tick whose refresh succeeded
\* (after a failed first get_location): the write is to the record of the
\* tick's character, changes nothing but its two tokens, and leaves every
\* other record as it was.  In every other tick USERS is left unchanged.
C15_CredentialsFrame ==
    [][PollerWritesUsers =>
          /\ p_trace = <<"fetch_fail", "refresh_ok">>
          /\ p_new_access # None
          /\ Len(USERS') = Len(USERS)
          /\ \A i \in 1..Len(USERS) :
                IF USERS[i].character_id = character_id
                THEN USERS'[i] = [USERS[i] EXCEPT !.access_token = USERS'[i].access_token,
                                                  !.refresh_token = USERS'[i].refresh_token]
                ELSE USERS'[i] = USERS[i]]_vars

\* The second character's tokens were replaced and the first character's
\* record still holds the tokens of its login.
C15_Witness ==
    /\ p_pc = "retry"
    /\ p_i = 2
    /\ Len(USERS) = 2
    /\ USERS[2].access_token = "at2" /\ USERS[2].refresh_token = "rt2"
    /\ USERS[1].access_token = "at1" /\ USERS[1].refresh_token = "rt1"

KeysOf(list) == [i \in 1..Len(list) |-> list[i].character_id]

\* The thread is inside a sweep, and stays in it with the step.
InSweep == p_pc \notin {"sweep", "sleep", "dead"}
StaysInSweep == InSweep /\ p_pc' \notin {"sweep", "dead"}

FirstFetchStep == p_pc = "fetch" /\ pollerVars' # pollerVars

\* C17: the access token the first get_location of a tick is called with
\* is the one USERS holds for the character at that moment.
C17_FetchSendsStoredToken ==
    [][FirstFetchStep =>
          access_token = USERS[UserIndex(USERS, character_id)].access_token]_vars

\* C18: LOCATION_HISTORY never holds two entries with the same
\* (character_id, system_id), also when the log_location calls of the
\* poller and of /callback interleave step by step.
C18_NoDuplicatePairs ==
    \A i, j \in 1..Len(LOCATION_HISTORY) :
        PairOf(LOCATION_HISTORY[i]) = PairOf(LOCATION_HISTORY[j]) => i = j

\* C19: when the log_location calls that were made have all returned,
\* also after interleaving, LOCATION_HISTORY holds an entry for the pair of
\* every one of them.
C19_NoLostObservation ==
    (~PollerLogging /\ ~CallbackLogging) =>
        PairsOf(r_calls) \subseteq PairsOf(LOCATION_HISTORY)

\* C20: in a tick of the poller in which refresh_access_token returned a new
\* access token, once lines 165-166 have stored the pair, the record of the
\* identity in USERS holds a refresh token that is not None.
C20_RefreshKeepsRefreshToken ==
    (/\ p_pc \in {"retry", "log_filter", "log_assign", "log_append", "session"}
     /\ Len(p_trace) >= 2
     /\ p_trace[2] = "refresh_ok")
        => USERS[UserIndex(USERS, character_id)].refresh_token # None

\* The step is one of the poller thread, of /callback, of home(), of
\* /update_settings.
PollerStep == pollerVars' # pollerVars
CallbackStep == callbackVars' # callbackVars
HomeStep == homeVars' # homeVars
SettingsStep == settingsVars' # settingsVars

\* C21 (as stated): no HTTP handler changes LOCATION_HISTORY; every step that
\* changes it is a step of the poller and of no handler.
C21_HandlersNeverMutateHistory ==
    [][LOCATION_HISTORY' # LOCATION_HISTORY =>
          PollerStep /\ ~CallbackStep /\ ~HomeStep /\ ~SettingsStep]_vars

\* C21 (amended): home() and /update_settings never change LOCATION_HISTORY;
\* /callback changes it only inside its log_location call (line 398), which
\* it makes only with the observation of a successful initial get_location;
\* every other change is made by the poller's log_location.
C21_OnlyCallbackAmongHandlers ==
    [][/\ (HomeStep \/ SettingsStep) => LOCATION_HISTORY' = LOCATION_HISTORY
       /\ (CallbackStep /\ LOCATION_HISTORY' # LOCATION_HISTORY) =>
              /\ cb_pc \in {"log_assign", "log_append"}
              /\ cb_env.loc.ok
              /\ cb_location # NoLocation
              /\ cb_location[1].system_id = cb_env.loc.solar_system_id
       /\ LOCATION_HISTORY' # LOCATION_HISTORY =>
              \/ CallbackStep /\ ~PollerStep
              \/ PollerStep /\ ~CallbackStep /\ p_pc \in {"log_assign", "log_append"}]_vars

\* /callback has recorded an observation while the poller has not yet made
\* a call, and home() and /update_settings have been served.
C21_Witness ==
    /\ LOCATION_HISTORY # <<>>
    /\ p_trace = <<>>
    /\ cb_pc = "idle"
    /\ h_pc = "done"
    /\ s_pc = "done"

\* C22: every observation held in LOCATION_HISTORY has at most one of
\* station_id and structure_id, whatever the location endpoint answered.
C22_AtMostOneDockedAt ==
    \A i \in 1..Len(LOCATION_HISTORY) :
        \/ LOCATION_HISTORY[i].station_id = NoneId
        \/ LOCATION_HISTORY[i].structure_id = NoneId

====
